---- MODULE Spec2Model ----
(***************************************************************************)
(* A model of src/src/formatter.js (VexFlow's Formatter): grid             *)
(* construction (createContexts), the minimum-width cache, the two-pass    *)
(* justification (preFormat) and the rest alignment heuristic              *)
(* (AlignRestsToNotes).                                                    *)
(*                                                                         *)
(* JavaScript numbers are modelled as exact rationals extended with NaN    *)
(* and the two infinities (records [n, d]; d = 0 marks the special         *)
(* values), so that a division by zero behaves as IEEE-754 says.           *)
(***************************************************************************)
EXTENDS Integers, Sequences, FiniteSets, TLC

\* ------------------------------------------------------------------ bounds
\* Longest voice list handed to an operation.
MaxVoices == 2
\* Longest tickable sequence of a voice in the grid-construction universe.
MaxTickables == 2
\* Largest justifyWidth handed to preFormat / format.
MaxJustify == 3
\* Longest note sequence handed to AlignRestsToNotes.
MaxNotes == 3

\* null, for the formatter's tickContexts and modiferContexts fields.
NULL == [null |-> TRUE]

IsNull(contexts) == "null" \in DOMAIN contexts

\* ------------------------------------------------------------ JS numbers
Abs(i) == IF i < 0 THEN -i ELSE i

Sign(i) == IF i < 0 THEN -1 ELSE IF i > 0 THEN 1 ELSE 0

Max(a, b) == IF a >= b THEN a ELSE b

RECURSIVE GCD(_, _)
GCD(a, b) == IF b = 0 THEN a ELSE GCD(b, a % b)

NaN == [n |-> 0, d |-> 0]

Infinity(s) == [n |-> s, d |-> 0]

IsNaN(a) == a.d = 0 /\ a.n = 0

IsFinite(a) == a.d > 0

\* A finite value n/d in lowest terms with a positive denominator.
Norm(n, d) ==
  LET g == GCD(Abs(n), Abs(d))
      s == IF d < 0 THEN -1 ELSE 1
  IN  [n |-> (s * n) \div g, d |-> (s * d) \div g]

Num(i) == [n |-> i, d |-> 1]

\* a + b
NumAdd(a, b) ==
  IF IsNaN(a) \/ IsNaN(b) THEN NaN
  ELSE IF ~IsFinite(a) /\ ~IsFinite(b)
    THEN IF a.n = b.n THEN a ELSE NaN
  ELSE IF ~IsFinite(a) THEN a
  ELSE IF ~IsFinite(b) THEN b
  ELSE Norm(a.n * b.d + b.n * a.d, a.d * b.d)

\* a * b
NumMul(a, b) ==
  IF IsNaN(a) \/ IsNaN(b) THEN NaN
  ELSE IF ~IsFinite(a) \/ ~IsFinite(b)
    THEN IF a.n = 0 \/ b.n = 0 THEN NaN ELSE Infinity(Sign(a.n) * Sign(b.n))
  ELSE Norm(a.n * b.n, a.d * b.d)

NumNeg(a) == [n |-> -a.n, d |-> a.d]

\* a - b
NumSub(a, b) == NumAdd(a, NumNeg(b))

\* a / b (the divisor zero is +0: it is a product of non-negative values)
NumDiv(a, b) ==
  IF IsNaN(a) \/ IsNaN(b) THEN NaN
  ELSE IF ~IsFinite(b)
    THEN IF ~IsFinite(a) THEN NaN ELSE Num(0)
  ELSE IF ~IsFinite(a) THEN Infinity(a.n * (IF b.n < 0 THEN -1 ELSE 1))
  ELSE IF b.n = 0
    THEN IF a.n = 0 THEN NaN ELSE Infinity(Sign(a.n))
  ELSE Norm(a.n * b.d, a.d * b.n)

\* a > b and a >= b; every comparison with NaN is false
NumGt(a, b) ==
  /\ ~IsNaN(a) /\ ~IsNaN(b)
  /\ IF IsFinite(a) /\ IsFinite(b) THEN a.n * b.d > b.n * a.d
     ELSE IF ~IsFinite(a) /\ ~IsFinite(b) THEN a.n > b.n
     ELSE IF ~IsFinite(a) THEN a.n > 0
     ELSE b.n < 0

NumGe(a, b) == ~IsNaN(a) /\ ~IsNaN(b) /\ (a = b \/ NumGt(a, b))

\* --------------------------------------------------------------- Fraction
Fraction(n, d) == [numerator |-> n, denominator |-> d]

FractionLCM(a, b) == (a * b) \div GCD(a, b)

\* add() brings both operands to the least common denominator and does not
\* simplify the sum.
FractionAdd(f, g) ==
  LET lcm == FractionLCM(f.denominator, g.denominator)
  IN  Fraction(f.numerator * (lcm \div f.denominator)
                 + g.numerator * (lcm \div g.denominator), lcm)

FractionEquals(f, g) == f.numerator * g.denominator = g.numerator * f.denominator

\* value(): numerator / denominator as a JS number
FractionValue(f) == NumDiv(Num(f.numerator), Num(f.denominator))

\* ------------------------------------------------------ tickables, voices
\* The tickables the model draws from: a zero-duration tickable with left
\* and extra-left padding (a clef or bar line), a whole-unit note and a
\* half-unit note.  width, left and extraLeft are what the tickable reports
\* after it has been asked to finalize its layout.
ZeroTickable == [ticks |-> Fraction(0, 1), width |-> 3, left |-> 1, extraLeft |-> 1]

UnitTickable == [ticks |-> Fraction(1, 1), width |-> 1, left |-> 0, extraLeft |-> 0]

HalfTickable == [ticks |-> Fraction(1, 2), width |-> 1, left |-> 1, extraLeft |-> 0]

TickableKinds == {ZeroTickable, UnitTickable, HalfTickable}

STRICT == "STRICT"

SOFT == "SOFT"

SeqsUpTo(S, n) == UNION {[1..k -> S] : k \in 0..n}

\* getTicksUsed(): the sum of the durations of the tickables added so far.
RECURSIVE SumTicks(_, _)
SumTicks(tickables, k) ==
  IF k = 0 THEN Fraction(0, 1)
  ELSE FractionAdd(SumTicks(tickables, k - 1), tickables[k].ticks)

getTicksUsed(voice) == SumTicks(voice.tickables, Len(voice.tickables))

getTotalTicks(voice) == voice.totalTicks

getMode(voice) == voice.mode

getTickables(voice) == voice.tickables

\* getResolutionMultiplier(): the denominator under which every duration of
\* the voice is an integer.
getResolutionMultiplier(voice) == getTicksUsed(voice).denominator

\* isComplete(): a STRICT voice is complete when its ticks used equal its
\* total ticks; other modes always are.
isComplete(voice) ==
  getMode(voice) = STRICT => FractionEquals(getTicksUsed(voice), getTotalTicks(voice))

Voice(mode, total, tickables) ==
  [mode |-> mode, totalTicks |-> total, tickables |-> tickables]

\* -------------------------------------------------------------- contexts
\* new ContextType(): a context with no tickable, not yet pre-formatted.
NewContext(ContextType) ==
  [type |-> ContextType, tickables |-> <<>>, preFormatted |-> FALSE,
   width |-> 0, left |-> 0, extraLeft |-> 0, x |-> Num(0)]

\* addToContext(tickable, context): both callbacks append the tickable to
\* the context's members.
addToContext(context, member) ==
  [context EXCEPT !.tickables = Append(@, member)]

RECURSIVE MaxOver(_, _, _)
MaxOver(members, k, field) ==
  IF k = 0 THEN 0
  ELSE Max(MaxOver(members, k - 1, field), members[k].t[field])

\* TickContext.preFormat(): once per context, take the maximum width and
\* paddings over the member tickables.
TickContextPreFormat(context) ==
  IF context.preFormatted THEN context
  ELSE [context EXCEPT
          !.preFormatted = TRUE,
          !.width = MaxOver(context.tickables, Len(context.tickables), "width"),
          !.left = MaxOver(context.tickables, Len(context.tickables), "left"),
          !.extraLeft = MaxOver(context.tickables, Len(context.tickables), "extraLeft")]

getWidth(context) == context.width

getExtraPx(context) == [left |-> context.left, extraLeft |-> context.extraLeft]

\* Vex.SortAndUnique(tickList, a - b, a === b): ascending, duplicates removed.
RECURSIVE SortSet(_)
SortSet(S) ==
  IF S = {} THEN <<>>
  ELSE LET m == CHOOSE a \in S : \A b \in S : a <= b
       IN  <<m>> \o SortSet(S \ {m})

SortAndUnique(tickList) == SortSet({tickList[k] : k \in 1..Len(tickList)})

\* -------------------------------------------------------- createContexts
\* !voices || !voices.length.  A missing argument and an empty array leave
\* every operation by the same BadArgument exit; both are the empty list here.
NoVoices(voices) == Len(voices) = 0

\* The reduce without its completeness check.
RECURSIVE ReduceVoicesUnchecked(_, _)
ReduceVoicesUnchecked(voices, k) ==
  IF k = 0 THEN [err |-> "none", resolutionMultiplier |-> 1]
  ELSE LET r == ReduceVoicesUnchecked(voices, k - 1)
           voice == voices[k]
       IN  IF r.err # "none" THEN r
           ELSE IF ~FractionEquals(getTotalTicks(voice), getTotalTicks(voices[1]))
             THEN [err |-> "TickMismatch", resolutionMultiplier |-> 1]
           ELSE [err |-> "none",
                 resolutionMultiplier |->
                   Max(r.resolutionMultiplier,
                       FractionLCM(r.resolutionMultiplier,
                                   getResolutionMultiplier(voice)))]

\* Lines 74-92: the reduce over the voices, first to last.  Each voice is
\* checked for TickMismatch, then for IncompleteVoice, and then folded into
\* the resolution multiplier.
RECURSIVE ReduceVoices(_, _)
ReduceVoices(voices, k) ==
  IF k = 0 THEN [err |-> "none", resolutionMultiplier |-> 1]
  ELSE LET r == ReduceVoices(voices, k - 1)
           voice == voices[k]
       IN  IF r.err # "none" THEN r
           ELSE IF ~FractionEquals(getTotalTicks(voice), getTotalTicks(voices[1]))
             THEN [err |-> "TickMismatch", resolutionMultiplier |-> 1]
           ELSE IF getMode(voice) = STRICT /\ ~isComplete(voice)
             THEN [err |-> "IncompleteVoice", resolutionMultiplier |-> 1]
           ELSE [err |-> "none",
                 resolutionMultiplier |->
                   Max(r.resolutionMultiplier,
                       FractionLCM(r.resolutionMultiplier,
                                   getResolutionMultiplier(voice)))]

\* A lookup that takes tick 0 for a missing entry.
HasContextUnlessZero(map, integerTicks) ==
  integerTicks # 0 /\ integerTicks \in DOMAIN map

\* Line 111: tickToContextMap[integerTicks] is a context object or undefined.
HasContext(map, integerTicks) == integerTicks \in DOMAIN map

\* Lines 107-123: one tickable of voice v.  map holds, per integer tick, the
\* index in array of the context it refers to.
VisitTickable(acc, v, i, tickable, ContextType) ==
  LET integerTicks == acc.ticksUsed.numerator
      fresh == ~HasContext(acc.map, integerTicks)
      array1 == IF fresh THEN Append(acc.array, NewContext(ContextType))
                ELSE acc.array
      map1 == IF fresh
                THEN [t \in DOMAIN acc.map \cup {integerTicks} |->
                        IF t = integerTicks THEN Len(array1) ELSE acc.map[t]]
                ELSE acc.map
      member == [voice |-> v, index |-> i, t |-> tickable]
  IN  [map |-> map1,
       array |-> [array1 EXCEPT ![map1[integerTicks]] = addToContext(@, member)],
       tickList |-> Append(acc.tickList, integerTicks),
       ticksUsed |-> FractionAdd(acc.ticksUsed, tickable.ticks)]

RECURSIVE WalkTickables(_, _, _, _, _)
WalkTickables(acc, voice, v, i, ContextType) ==
  IF i = 0 THEN acc
  ELSE VisitTickable(WalkTickables(acc, voice, v, i - 1, ContextType),
                     v, i, getTickables(voice)[i], ContextType)

\* Lines 101-124: every voice starts again from ticksUsed = 0 / multiplier.
RECURSIVE WalkVoices(_, _, _, _)
WalkVoices(voices, v, resolutionMultiplier, ContextType) ==
  IF v = 0
    THEN [map |-> <<>>, array |-> <<>>, tickList |-> <<>>,
          ticksUsed |-> Fraction(0, resolutionMultiplier)]
  ELSE LET before == WalkVoices(voices, v - 1, resolutionMultiplier, ContextType)
       IN  WalkTickables([before EXCEPT !.ticksUsed = Fraction(0, resolutionMultiplier)],
                         voices[v], v, Len(getTickables(voices[v])), ContextType)

Thrown(err) ==
  [err |-> err, map |-> <<>>, array |-> <<>>, list |-> <<>>,
   resolutionMultiplier |-> 1, added |-> 0]

\* createContexts(voices, ContextType, addToContext).  err is the error
\* thrown ("none" when the call returns); added counts the addToContext calls
\* made and Len(array) the contexts constructed before the call ended.
createContexts(voices, ContextType) ==
  IF NoVoices(voices) THEN Thrown("BadArgument")
  ELSE LET r == ReduceVoices(voices, Len(voices))
       IN  IF r.err # "none" THEN Thrown(r.err)
           ELSE LET w == WalkVoices(voices, Len(voices), r.resolutionMultiplier,
                                    ContextType)
                IN  [err |-> "none", map |-> w.map, array |-> w.array,
                     list |-> SortAndUnique(w.tickList),
                     resolutionMultiplier |-> r.resolutionMultiplier,
                     added |-> Len(w.tickList)]

Contexts(c) ==
  [map |-> c.map, array |-> c.array, list |-> c.list,
   resolutionMultiplier |-> c.resolutionMultiplier]

\* ------------------------------------------------------------- Formatter
VARIABLES
  minTotalWidth,     \* this.minTotalWidth (a JS number)
  hasMinTotalWidth,  \* this.hasMinTotalWidth
  totalTicks,        \* this.totalTicks (a Fraction)
  tickContexts,      \* this.tickContexts: NULL or [map, array, list, resolutionMultiplier]
  modiferContexts,   \* this.modiferContexts, likewise
  last,              \* the last call: its name, arguments, outcome and what it did
  computed,          \* a width computation has completed since construction / the last join
  voicesIn,          \* the voice list under test (grid construction)
  notes,             \* the note sequence under test (rest alignment)
  aligned            \* the AlignRestsToNotes call made on notes, if any

vars == <<minTotalWidth, hasMinTotalWidth, totalTicks, tickContexts,
          modiferContexts, last, computed, voicesIn, notes, aligned>>

formatter == <<minTotalWidth, hasMinTotalWidth, totalTicks, tickContexts,
               modiferContexts>>

\* What a call leaves behind for the properties to read:
\*   op, justifyWidth  the call and the width it was given (0 when none)
\*   err          the name of the error thrown, "none" when the call returned
\*   val          the number returned (0 when the call returns no number)
\*   created      contexts constructed during the call
\*   added        addToContext calls made during the call
\*   asked        context.preFormat() calls made during the call
\*   pass1        the x of each context (tick order) after pass 1 of preFormat
\*   incs         the tickSpace of each context (tick order) in pass 2
Call(op, justifyWidth, err, val, created, added, asked, pass1, incs) ==
  [op |-> op, justifyWidth |-> justifyWidth, err |-> err, val |-> val,
   created |-> created, added |-> added, asked |-> asked, pass1 |-> pass1,
   incs |-> incs]

Returned(op, val, created, added, asked) ==
  Call(op, 0, "none", val, created, added, asked, <<>>, <<>>)

Threw(op, err) == Call(op, 0, err, Num(0), 0, 0, 0, <<>>, <<>>)

\* No AlignRestsToNotes call yet; before keeps the notes as they were given.
NotAligned(given) ==
  [done |-> FALSE, alignAllNotes |-> FALSE, alignTuplets |-> FALSE,
   before |-> given]

\* Lines 291-304.
Constructed ==
  /\ minTotalWidth = Num(0)
  /\ hasMinTotalWidth = FALSE
  /\ totalTicks = Fraction(0, 1)
  /\ tickContexts = NULL
  /\ modiferContexts = NULL
  /\ last = Returned("constructor", Num(0), 0, 0, 0)
  /\ computed = FALSE

\* Lines 364-373.
CreateModifierContexts(voices) ==
  LET contexts == createContexts(voices, "ModifierContext")
  IN  /\ IF contexts.err # "none"
           THEN /\ last' = Threw("createModifierContexts", contexts.err)
                /\ UNCHANGED modiferContexts
           ELSE /\ modiferContexts' = Contexts(contexts)
                /\ last' = Returned("createModifierContexts", Num(0),
                                    Len(contexts.array), contexts.added, 0)
      /\ UNCHANGED <<minTotalWidth, hasMinTotalWidth, totalTicks, tickContexts,
                     computed, voicesIn, notes, aligned>>

\* Lines 377-391 as a function of the voices: the error thrown, or the values
\* assigned to this.totalTicks and this.tickContexts.  (context.tContexts, the
\* back reference of each context to the array, is not read by this file.)
createTickContexts(voices) ==
  LET contexts == createContexts(voices, "TickContext")
  IN  IF contexts.err # "none"
        THEN [err |-> contexts.err, totalTicks |-> Fraction(0, 1),
              tickContexts |-> NULL, created |-> 0, added |-> 0]
        ELSE [err |-> "none", totalTicks |-> getTicksUsed(voices[1]),
              tickContexts |-> Contexts(contexts),
              created |-> Len(contexts.array), added |-> contexts.added]

CreateTickContexts(voices) ==
  LET c == createTickContexts(voices)
  IN  /\ IF c.err # "none"
           THEN /\ last' = Threw("createTickContexts", c.err)
                /\ UNCHANGED <<totalTicks, tickContexts>>
           ELSE /\ totalTicks' = c.totalTicks
                /\ tickContexts' = c.tickContexts
                /\ last' = Returned("createTickContexts", Num(0),
                                    c.created, c.added, 0)
      /\ UNCHANGED <<minTotalWidth, hasMinTotalWidth, modiferContexts, computed,
                     voicesIn, notes, aligned>>

\* context.preFormat() on the context of each tick of the list, in order.
RECURSIVE PreFormatContexts(_, _)
PreFormatContexts(contexts, k) ==
  IF k = 0 THEN contexts.array
  ELSE [PreFormatContexts(contexts, k - 1) EXCEPT
          ![contexts.map[contexts.list[k]]] = TickContextPreFormat(@)]

\* Lines 337-343: the widths of the contexts, in tick order, summed from 0.
RECURSIVE SumWidths(_, _, _)
SumWidths(contexts, array, k) ==
  IF k = 0 THEN Num(0)
  ELSE NumAdd(SumWidths(contexts, array, k - 1),
              Num(getWidth(array[contexts.map[contexts.list[k]]])))

\* A pass 1 whose carried shift is the whole width.
RECURSIVE Pass1Stacking(_, _)
Pass1Stacking(contexts, k) ==
  IF k = 0
    THEN [array |-> contexts.array, x |-> Num(0), shift |-> Num(0), xs |-> <<>>]
  ELSE LET p == Pass1Stacking(contexts, k - 1)
           c == contexts.map[contexts.list[k]]
           context == TickContextPreFormat(p.array[c])
           extra == getExtraPx(context)
           pad == NumAdd(Num(extra.left), Num(extra.extraLeft))
           x == NumAdd(NumAdd(p.x, p.shift), pad)
       IN  [array |-> [p.array EXCEPT ![c] = [context EXCEPT !.x = x]],
            x |-> x,
            shift |-> Num(getWidth(context)),
            xs |-> Append(p.xs, x)]

\* Lines 410-435, pass 1: x, shift and the contexts after the first k ticks;
\* xs collects the x given to each context.
RECURSIVE Pass1(_, _)
Pass1(contexts, k) ==
  IF k = 0
    THEN [array |-> contexts.array, x |-> Num(0), shift |-> Num(0), xs |-> <<>>]
  ELSE LET p == Pass1(contexts, k - 1)
           c == contexts.map[contexts.list[k]]
           context == TickContextPreFormat(p.array[c])
           extra == getExtraPx(context)
           pad == NumAdd(Num(extra.left), Num(extra.extraLeft))
           x == NumAdd(NumAdd(p.x, p.shift), pad)
       IN  [array |-> [p.array EXCEPT ![c] = [context EXCEPT !.x = x]],
            x |-> x,
            shift |-> NumSub(Num(getWidth(context)), pad),
            xs |-> Append(p.xs, x)]

\* Line 446: contextList[index - 1] || 0
PrevTick(list, k) == IF k = 1 \/ list[k - 1] = 0 THEN 0 ELSE list[k - 1]

\* Lines 443-459, pass 2, over the first k ticks.  (center_x_shift is a field of
\* the tickables and is read by nothing in this file.)
RECURSIVE Pass2(_, _, _, _)
Pass2(contexts, array, leftoverPxPerTick, k) ==
  IF k = 0 THEN [array |-> array, spaceAccum |-> Num(0), incs |-> <<>>]
  ELSE LET p == Pass2(contexts, array, leftoverPxPerTick, k - 1)
           tick == contexts.list[k]
           c == contexts.map[tick]
           tickSpace == NumMul(Num(tick - PrevTick(contexts.list, k)),
                               leftoverPxPerTick)
           spaceAccum == NumAdd(p.spaceAccum, tickSpace)
       IN  [array |-> [p.array EXCEPT ![c].x = NumAdd(@, spaceAccum)],
            spaceAccum |-> spaceAccum,
            incs |-> Append(p.incs, tickSpace)]

\* A pixels-per-tick that forgets the resolution multiplier.
LeftoverPxPerTickUnscaled(remainingX, ticks, resolutionMultiplier) ==
  NumDiv(remainingX, FractionValue(ticks))

\* Line 442.
LeftoverPxPerTick(remainingX, ticks, resolutionMultiplier) ==
  NumDiv(remainingX, NumMul(FractionValue(ticks), Num(resolutionMultiplier)))

\* Lines 397-461 on existing tick contexts: the contexts and minTotalWidth it
\* leaves, with the pass-1 positions and the pass-2 increments.
preFormat(contexts, ticks, justifyWidth) ==
  LET n == Len(contexts.list)
      p1 == Pass1(contexts, n)
      min == NumAdd(p1.x, p1.shift)
      remainingX == NumSub(Num(justifyWidth), min)
      p2 == Pass2(contexts, p1.array,
                  LeftoverPxPerTick(remainingX, ticks, contexts.resolutionMultiplier),
                  n)
  IN  [tickContexts |-> [contexts EXCEPT
                           !.array = IF justifyWidth > 0 THEN p2.array ELSE p1.array],
       minTotalWidth |-> min,
       pass1 |-> p1.xs,
       incs |-> IF justifyWidth > 0 THEN p2.incs ELSE <<>>,
       asked |-> n]

\* Lines 323-347: the computation behind the cache.
PreCalculateRecompute(voices) ==
  LET c == IF IsNull(tickContexts) THEN createTickContexts(voices)
           ELSE [err |-> "none", totalTicks |-> totalTicks,
                 tickContexts |-> tickContexts, created |-> 0, added |-> 0]
  IN  /\ IF c.err # "none"
           THEN /\ last' = Threw("preCalculateMinTotalWidth", c.err)
                /\ UNCHANGED <<formatter, computed>>
         ELSE LET n == Len(c.tickContexts.list)
                  array == PreFormatContexts(c.tickContexts, n)
                  sum == SumWidths(c.tickContexts, array, n)
              IN  /\ totalTicks' = c.totalTicks
                  /\ tickContexts' = [c.tickContexts EXCEPT !.array = array]
                  /\ minTotalWidth' = sum
                  /\ hasMinTotalWidth' = TRUE
                  /\ computed' = TRUE
                  /\ last' = Returned("preCalculateMinTotalWidth", sum,
                                      c.created, c.added, n)
                  /\ UNCHANGED modiferContexts
      /\ UNCHANGED <<voicesIn, notes, aligned>>

\* A preCalculateMinTotalWidth that ignores its cache.
PreCalculateUncached(voices) == PreCalculateRecompute(voices)

\* Lines 319-348.
PreCalculateMinTotalWidth(voices) ==
  IF hasMinTotalWidth
    THEN /\ last' = Returned("preCalculateMinTotalWidth", minTotalWidth, 0, 0, 0)
         /\ computed' = TRUE
         /\ UNCHANGED <<formatter, voicesIn, notes, aligned>>
  ELSE PreCalculateRecompute(voices)

\* Lines 352-361.
GetMinTotalWidth ==
  /\ last' = IF ~hasMinTotalWidth THEN Threw("getMinTotalWidth", "NoMinTotalWidth")
             ELSE Returned("getMinTotalWidth", minTotalWidth, 0, 0, 0)
  /\ UNCHANGED <<formatter, computed, voicesIn, notes, aligned>>

\* Lines 397-461 as a call: destructuring this.tickContexts (line 400) throws a
\* TypeError while it is null.
PreFormat(justifyWidth) ==
  /\ IF IsNull(tickContexts)
       THEN /\ last' = Threw("preFormat", "TypeError")
            /\ UNCHANGED <<formatter, computed>>
     ELSE LET f == preFormat(tickContexts, totalTicks, justifyWidth)
          IN  /\ tickContexts' = f.tickContexts
              /\ minTotalWidth' = f.minTotalWidth
              /\ hasMinTotalWidth' = TRUE
              /\ computed' = TRUE
              /\ last' = Call("preFormat", justifyWidth, "none", Num(0), 0, 0,
                              f.asked, f.pass1, f.incs)
              /\ UNCHANGED <<totalTicks, modiferContexts>>
  /\ UNCHANGED <<voicesIn, notes, aligned>>

\* Lines 466-474: reading .list of a null context collection throws.
PostFormat ==
  /\ last' = IF IsNull(modiferContexts) \/ IsNull(tickContexts)
               THEN Threw("postFormat", "TypeError")
             ELSE Returned("postFormat", Num(0), 0, 0, 0)
  /\ UNCHANGED <<formatter, computed, voicesIn, notes, aligned>>

\* A joinVoices that leaves the cache flag alone.
JoinVoicesKeepingCache(voices) ==
  LET contexts == createContexts(voices, "ModifierContext")
  IN  /\ IF contexts.err # "none"
           THEN /\ last' = Threw("joinVoices", contexts.err)
                /\ UNCHANGED <<modiferContexts, computed>>
           ELSE /\ modiferContexts' = Contexts(contexts)
                /\ computed' = FALSE
                /\ last' = Returned("joinVoices", Num(0),
                                    Len(contexts.array), contexts.added, 0)
      /\ UNCHANGED <<minTotalWidth, hasMinTotalWidth, totalTicks, tickContexts,
                     voicesIn, notes, aligned>>

\* Lines 478-482.
JoinVoices(voices) ==
  LET contexts == createContexts(voices, "ModifierContext")
  IN  /\ IF contexts.err # "none"
           THEN /\ last' = Threw("joinVoices", contexts.err)
                /\ UNCHANGED <<modiferContexts, hasMinTotalWidth, computed>>
           ELSE /\ modiferContexts' = Contexts(contexts)
                /\ hasMinTotalWidth' = FALSE
                /\ computed' = FALSE
                /\ last' = Returned("joinVoices", Num(0),
                                    Len(contexts.array), contexts.added, 0)
      /\ UNCHANGED <<minTotalWidth, totalTicks, tickContexts, voicesIn, notes, aligned>>

\* Lines 492-508.  alignRests (line 500) throws BadArgument without voices and
\* otherwise changes only the lines of the notes; the stave, when given, makes
\* format end with postFormat, which throws after the layout is done when the
\* voices were never joined.
Format(voices, justifyWidth, stave) ==
  /\ IF NoVoices(voices)
       THEN /\ last' = Threw("format", "BadArgument")
            /\ UNCHANGED <<formatter, computed>>
     ELSE LET c == createTickContexts(voices)
          IN  IF c.err # "none"
                THEN /\ last' = Threw("format", c.err)
                     /\ UNCHANGED <<formatter, computed>>
              ELSE LET f == preFormat(c.tickContexts, c.totalTicks, justifyWidth)
                   IN  /\ totalTicks' = c.totalTicks
                       /\ tickContexts' = f.tickContexts
                       /\ minTotalWidth' = f.minTotalWidth
                       /\ hasMinTotalWidth' = TRUE
                       /\ computed' = TRUE
                       /\ last' = Call("format", justifyWidth,
                                       IF stave /\ IsNull(modiferContexts)
                                         THEN "TypeError" ELSE "none",
                                       Num(0), c.created, c.added, f.asked,
                                       f.pass1, f.incs)
                       /\ UNCHANGED modiferContexts
  /\ UNCHANGED <<voicesIn, notes, aligned>>

\* ------------------------------------------------- the formatter machine
\* The voice lists the formatter's operations are called with: no voice, a
\* complete STRICT voice of two unit notes, a SOFT voice holding one
\* zero-duration tickable, an incomplete STRICT voice, and two lists whose
\* second voice has another total than the first.
CompleteVoice == Voice(STRICT, Fraction(2, 1), <<UnitTickable, UnitTickable>>)

ZeroVoice == Voice(SOFT, Fraction(2, 1), <<ZeroTickable>>)

IncompleteVoice == Voice(STRICT, Fraction(2, 1), <<UnitTickable>>)

ShortVoice == Voice(SOFT, Fraction(1, 1), <<UnitTickable>>)

FormatterInputs ==
  { <<>>, <<CompleteVoice>>, <<ZeroVoice>>, <<IncompleteVoice>>,
    <<CompleteVoice, ShortVoice>>, <<IncompleteVoice, ShortVoice>> }

\* justifyWidth 0 lays out at the minimum width; any other value justifies.
FormatterWidths == {0, MaxJustify}

Init ==
  /\ Constructed
  /\ voicesIn = <<>>
  /\ notes = <<>>
  /\ aligned = NotAligned(notes)

Next ==
  \/ \E voices \in FormatterInputs : JoinVoices(voices)
  \/ \E voices \in FormatterInputs : CreateModifierContexts(voices)
  \/ \E voices \in FormatterInputs : CreateTickContexts(voices)
  \/ \E voices \in FormatterInputs : PreCalculateMinTotalWidth(voices)
  \/ GetMinTotalWidth
  \/ \E justifyWidth \in FormatterWidths : PreFormat(justifyWidth)
  \/ PostFormat
  \/ \E voices \in FormatterInputs, justifyWidth \in FormatterWidths, stave \in BOOLEAN :
       Format(voices, justifyWidth, stave)

Spec == Init /\ [][Next]_vars

\* --------------------------------------------------- the cache, claims
\* The minimum width of the tick contexts grid construction builds from voices.
MinWidthOf(voices) ==
  LET c == createTickContexts(voices).tickContexts
      n == Len(c.list)
  IN  SumWidths(c, PreFormatContexts(c, n), n)

\* The minimum width of the tick contexts the formatter holds.
HeldMinWidth ==
  LET n == Len(tickContexts.list)
  IN  SumWidths(tickContexts, PreFormatContexts(tickContexts, n), n)

\* C3 (as claimed): when joinVoices(voices) has returned, the next
\* preCalculateMinTotalWidth(voices) returns the minimum width of the voices
\* supplied, whatever calls came before the join.
C3_RejoinRecomputes ==
  [][\A voices \in FormatterInputs :
       (/\ last.op = "joinVoices"
        /\ last.err = "none"
        /\ modiferContexts = Contexts(createContexts(voices, "ModifierContext"))
        /\ PreCalculateMinTotalWidth(voices)
        /\ last'.err = "none")
       => last'.val = MinWidthOf(voices)]_vars

\* C4: a preCalculateMinTotalWidth call that directly follows a returned one
\* returns the same value, leaves the tick contexts as they are, constructs no
\* context and asks no context to preFormat.
C4_PreCalculateIdempotent ==
  [][(/\ last.op = "preCalculateMinTotalWidth"
      /\ last.err = "none"
      /\ last'.op = "preCalculateMinTotalWidth")
     => (/\ last'.err = "none"
         /\ last'.val = last.val
         /\ tickContexts' = tickContexts
         /\ last'.created = 0
         /\ last'.asked = 0)]_vars

\* A cached answer was given for tick contexts that exist.
C4_Witness ==
  /\ last.op = "preCalculateMinTotalWidth"
  /\ last.err = "none"
  /\ last.asked = 0
  /\ ~IsNull(tickContexts)
  /\ NumGt(last.val, Num(0))

\* What grid construction on voices must leave behind (C5).
GridOutcome(voices) ==
  LET bad == NoVoices(voices)
      mismatch == \E k \in 1..Len(voices) :
                    ~FractionEquals(getTotalTicks(voices[k]), getTotalTicks(voices[1]))
      incomplete == \E k \in 1..Len(voices) :
                      getMode(voices[k]) = STRICT /\ ~isComplete(voices[k])
  IN  /\ (last'.err # "none") = (bad \/ mismatch \/ incomplete)
      /\ bad = (last'.err = "BadArgument")
      /\ last'.err = "TickMismatch" => mismatch
      /\ last'.err = "IncompleteVoice" => incomplete
      /\ last'.err \in {"none", "BadArgument", "TickMismatch", "IncompleteVoice"}
      /\ last'.err # "none" =>
           /\ last'.created = 0
           /\ last'.added = 0
           /\ UNCHANGED <<formatter, computed>>

\* C5: createTickContexts and createModifierContexts throw BadArgument without
\* voices, TickMismatch or IncompleteVoice only when a voice has another total
\* than the first or is STRICT and incomplete, and throw whenever one of the
\* three holds; a call that throws has constructed no context, added no
\* tickable and left every field of the formatter as it was.
C5_GridFailsWhole ==
  [][\A voices \in FormatterInputs :
       /\ CreateTickContexts(voices) => GridOutcome(voices)
       /\ CreateModifierContexts(voices) => GridOutcome(voices)]_vars

\* Grid construction threw on a formatter that already held contexts and a
\* cached width.
C5_Witness ==
  /\ last.op \in {"createTickContexts", "createModifierContexts"}
  /\ last.err \in {"TickMismatch", "IncompleteVoice"}
  /\ ~IsNull(tickContexts)
  /\ ~IsNull(modiferContexts)
  /\ hasMinTotalWidth

\* C6: getMinTotalWidth throws NoMinTotalWidth exactly when no width
\* computation has completed since construction or since the last joinVoices
\* that returned; otherwise it returns the stored minTotalWidth; either way it
\* changes nothing.
C6_NoMinTotalWidth ==
  [][last'.op = "getMinTotalWidth" =>
       /\ (last'.err = "NoMinTotalWidth") = ~computed
       /\ (last'.err = "none") = computed
       /\ computed => last'.val = minTotalWidth
       /\ UNCHANGED <<formatter, computed>>]_vars

\* getMinTotalWidth threw after a width had been computed and the voices
\* were joined again.
C6_Witness ==
  /\ last.op = "getMinTotalWidth"
  /\ last.err = "NoMinTotalWidth"
  /\ ~IsNull(tickContexts)
  /\ ~IsNull(modiferContexts)
  /\ NumGt(minTotalWidth, Num(0))

\* C10 (as claimed): whenever hasMinTotalWidth is set, minTotalWidth is the
\* sum of the widths of the tick contexts the formatter holds.
C10_CacheCoherent ==
  hasMinTotalWidth => (~IsNull(tickContexts) /\ minTotalWidth = HeldMinWidth)

\* ------------------------------------------------------ layout of a list
\* The voices a layout is computed for: the complete STRICT voice, the SOFT
\* voice that has used no ticks, a SOFT voice of one half-unit note (fewer
\* ticks used than its total, resolution multiplier 2) and a SOFT voice that
\* ends with a zero-duration tickable.
HalfVoice == Voice(SOFT, Fraction(2, 1), <<HalfTickable>>)

TrailingZeroVoice == Voice(SOFT, Fraction(2, 1), <<UnitTickable, ZeroTickable>>)

LayoutVoices == {CompleteVoice, ZeroVoice, HalfVoice, TrailingZeroVoice}

LayoutInputs == SeqsUpTo(LayoutVoices, MaxVoices)

JustifyWidths == 0..MaxJustify

InitLayout ==
  /\ Constructed
  /\ voicesIn \in LayoutInputs
  /\ notes = <<>>
  /\ aligned = NotAligned(notes)

NextLayout ==
  \/ CreateTickContexts(voicesIn)
  \/ PreCalculateMinTotalWidth(voicesIn)
  \/ \E justifyWidth \in JustifyWidths : PreFormat(justifyWidth)
  \/ \E justifyWidth \in JustifyWidths, stave \in BOOLEAN :
       Format(voicesIn, justifyWidth, stave)

SpecLayout == InitLayout /\ [][NextLayout]_vars

\* The last call was a preFormat, alone or inside format, that ran to its end.
LaidOut ==
  \/ last.op = "preFormat" /\ last.err = "none"
  \/ last.op = "format" /\ last.err \in {"none", "TypeError"}

ContextAt(k) == tickContexts.array[tickContexts.map[tickContexts.list[k]]]

RECURSIVE SumNums(_, _)
SumNums(seq, k) == IF k = 0 THEN Num(0) ELSE NumAdd(SumNums(seq, k - 1), seq[k])

RECURSIVE WidthsBefore(_)
WidthsBefore(k) ==
  IF k = 1 THEN 0 ELSE WidthsBefore(k - 1) + getWidth(ContextAt(k - 1))

Leftover == NumSub(Num(last.justifyWidth), minTotalWidth)

LastTick ==
  IF Len(tickContexts.list) = 0 THEN 0
  ELSE tickContexts.list[Len(tickContexts.list)]

C7_JustifyAtMinimumKeepsPass1 ==
  (LaidOut /\ last.justifyWidth > 0 /\ Num(last.justifyWidth) = minTotalWidth) =>
    /\ Leftover = Num(0)
    /\ \A k \in 1..Len(tickContexts.list) :
         /\ ContextAt(k).x = last.pass1[k]
         /\ last.incs[k] = Num(0)

\* C9: after pass 1, minTotalWidth (x + shift) is the sum of the widths of the
\* tick contexts, the value preCalculateMinTotalWidth computes for them, and
\* the pass-1 position of each context is the sum of the widths of the
\* contexts before it plus its own left and extra-left padding.
C9_MinimumWidthsAgree ==
  LaidOut =>
    /\ minTotalWidth = HeldMinWidth
    /\ Len(last.pass1) = Len(tickContexts.list)
    /\ \A k \in 1..Len(tickContexts.list) :
         last.pass1[k] =
           Num(WidthsBefore(k) + getExtraPx(ContextAt(k)).left
                 + getExtraPx(ContextAt(k)).extraLeft)

\* A layout whose second or later context has padding.
C9_Witness ==
  /\ LaidOut
  /\ \E k \in 2..Len(tickContexts.list) :
       /\ getExtraPx(ContextAt(k)).left + getExtraPx(ContextAt(k)).extraLeft > 0
       /\ getExtraPx(ContextAt(1)).left > 0

\* ------------------------------------------------------ grid construction
\* Every SOFT voice of at most MaxTickables tickables: grid construction
\* accepts each list of them.
GridVoices ==
  {Voice(SOFT, Fraction(2, 1), t) : t \in SeqsUpTo(TickableKinds, MaxTickables)}

GridInputs == SeqsUpTo(GridVoices, MaxVoices)

InitGrid ==
  /\ Constructed
  /\ voicesIn \in GridInputs
  /\ notes = <<>>
  /\ aligned = NotAligned(notes)

\* Either construction, on a formatter just constructed.
NextGrid ==
  \/ last.op = "constructor" /\ CreateTickContexts(voicesIn)
  \/ last.op = "constructor" /\ CreateModifierContexts(voicesIn)

SpecGrid == InitGrid /\ [][NextGrid]_vars

\* The integer tick tickable i of a voice starts on: the durations before it,
\* each expanded to the common denominator.
RECURSIVE StartTick(_, _, _)
StartTick(voice, i, resolutionMultiplier) ==
  IF i = 1 THEN 0
  ELSE StartTick(voice, i - 1, resolutionMultiplier)
         + getTickables(voice)[i - 1].ticks.numerator
             * (resolutionMultiplier
                  \div getTickables(voice)[i - 1].ticks.denominator)

Places(voices) ==
  {<<v, i>> : v \in 1..Len(voices), i \in 1..MaxTickables + 1} \cap
  UNION {{<<v, i>> : i \in 1..Len(getTickables(voices[v]))} : v \in 1..Len(voices)}

StartTicks(voices, resolutionMultiplier) ==
  {StartTick(voices[p[1]], p[2], resolutionMultiplier) : p \in Places(voices)}

\* How often tickable i of voice v is a member of context.
Occurrences(context, v, i) ==
  Cardinality({m \in 1..Len(context.tickables) :
                 context.tickables[m].voice = v /\ context.tickables[m].index = i})

Built ==
  IF last.op = "createTickContexts" THEN tickContexts ELSE modiferContexts

\* C1: when grid construction returns, there is one context per distinct
\* integer start tick of the voices' tickables, the map takes each of those
\* ticks to a context of its own, and every tickable is a member, once, of the
\* context of its start tick and of no other.
C1_OneContextPerTick ==
  (last.op \in {"createTickContexts", "createModifierContexts"} /\ last.err = "none") =>
    LET rm == Built.resolutionMultiplier
        ticks == StartTicks(voicesIn, rm)
    IN  /\ Len(Built.array) = Cardinality(ticks)
        /\ last.created = Cardinality(ticks)
        /\ DOMAIN Built.map = ticks
        /\ \A t \in ticks : Built.map[t] \in 1..Len(Built.array)
        /\ \A t, u \in ticks : Built.map[t] = Built.map[u] => t = u
        /\ \A p \in Places(voicesIn) :
             \A c \in 1..Len(Built.array) :
               Occurrences(Built.array[c], p[1], p[2]) =
                 IF c = Built.map[StartTick(voicesIn[p[1]], p[2], rm)] THEN 1 ELSE 0

\* Two voices share the context of tick 0, which a zero-duration tickable
\* opened and the tickable after it joined.
C1_Witness ==
  /\ last.op = "createTickContexts"
  /\ last.err = "none"
  /\ Len(voicesIn) = 2
  /\ Len(getTickables(voicesIn[1])) = 2
  /\ getTickables(voicesIn[1])[1] = ZeroTickable
  /\ Len(tickContexts.array[tickContexts.map[0]].tickables) = 3
  /\ Len(tickContexts.array) = 2
  /\ tickContexts.resolutionMultiplier = 2

\* ---------------------------------------------------------- rest alignment
\* Lines are counted in half lines, so that the midpoint of two lines is an
\* integer once rounded.
\* Vex.MidLine(top, bot): the midpoint, rounded up to the next half line.
MidLine(top, bot) == (top + bot + 1) \div 2

\* A note as AlignRestsToNotes sees it: whether it is a StaveNote, a rest,
\* in a tuplet, beamed, ignoring ticks; its glyph's position; the line of its
\* first key.
Note(staveNote, rest, tuplet, beam, position, line, ignoreTicks) ==
  [staveNote |-> staveNote, rest |-> rest, tuplet |-> tuplet, beam |-> beam,
   position |-> position, line |-> line, ignoreTicks |-> ignoreTicks]

NoteKinds ==
  { Note(TRUE, FALSE, FALSE, FALSE, "none", 4, FALSE),
    Note(TRUE, FALSE, FALSE, FALSE, "none", 10, FALSE),
    Note(TRUE, TRUE, FALSE, FALSE, "b/4", 6, FALSE),
    Note(TRUE, TRUE, FALSE, TRUE, "R/4", 6, FALSE),
    Note(TRUE, TRUE, TRUE, FALSE, "B/4", 6, FALSE),
    Note(TRUE, TRUE, FALSE, TRUE, "D/5", 8, FALSE),
    Note(FALSE, FALSE, FALSE, FALSE, "none", 0, TRUE) }

isRest(note) == note.rest

shouldIgnoreTicks(note) == note.ignoreTicks

\* getLineForRest(): the line of the only key of a StaveNote, 0 for any
\* other note.
getLineForRest(note) == IF note.staveNote THEN note.line ELSE 0

\* String.prototype.toUpperCase on the positions in use.
ToUpperCase(position) ==
  CASE position = "b/4" -> "B/4"
    [] position = "r/4" -> "R/4"
    [] position = "d/5" -> "D/5"
    [] OTHER -> position

\* Lines 39-45: the rest line of the first note after i that is neither a rest
\* nor ignoring ticks, restLine when there is none.
RECURSIVE NextRestLine(_, _, _)
NextRestLine(ns, restLine, i) ==
  IF i + 1 > Len(ns) THEN restLine
  ELSE IF ~isRest(ns[i + 1]) /\ ~shouldIgnoreTicks(ns[i + 1])
    THEN getLineForRest(ns[i + 1])
  ELSE NextRestLine(ns, restLine, i + 1)

\* Lines 34-54.
lookAhead(ns, restLine, i, compare) ==
  LET nextRestLine == NextRestLine(ns, restLine, i)
  IN  IF compare /\ restLine # nextRestLine
        THEN MidLine(Max(restLine, nextRestLine),
                     IF restLine <= nextRestLine THEN restLine ELSE nextRestLine)
      ELSE nextRestLine

\* Lines 258-265: the rests the pass moves.
Eligible(note, alignAllNotes, alignTuplets) ==
  /\ note.staveNote
  /\ isRest(note)
  /\ ~(note.tuplet /\ ~alignTuplets)
  /\ ToUpperCase(note.position) \in {"R/4", "B/4"}
  /\ (alignAllNotes \/ note.beam)

\* A callback that looks ahead from the previous note's rest line also when
\* the previous note is a rest.
AlignNoteLookingAhead(ns, k, alignAllNotes, alignTuplets) ==
  IF ~Eligible(ns[k], alignAllNotes, alignTuplets) THEN ns
  ELSE IF k = 1
    THEN [ns EXCEPT ![k].line = lookAhead(ns, ns[k].line, k, FALSE)]
  ELSE [ns EXCEPT ![k].line = lookAhead(ns, getLineForRest(ns[k - 1]), k, TRUE)]

\* Lines 257-286, the callback on the note at position k (index k - 1).
AlignNote(ns, k, alignAllNotes, alignTuplets) ==
  IF ~Eligible(ns[k], alignAllNotes, alignTuplets) THEN ns
  ELSE IF k = 1
    THEN [ns EXCEPT ![k].line = lookAhead(ns, ns[k].line, k, FALSE)]
  ELSE IF isRest(ns[k - 1])
    THEN [ns EXCEPT ![k].line = ns[k - 1].line]
  ELSE [ns EXCEPT ![k].line = lookAhead(ns, getLineForRest(ns[k - 1]), k, TRUE)]

\* notes.forEach: the callback on the first k notes, in order.
RECURSIVE AlignUpTo(_, _, _, _)
AlignUpTo(ns, k, alignAllNotes, alignTuplets) ==
  IF k = 0 THEN ns
  ELSE AlignNote(AlignUpTo(ns, k - 1, alignAllNotes, alignTuplets), k,
                 alignAllNotes, alignTuplets)

\* Lines 256-289.
AlignRestsToNotes(alignAllNotes, alignTuplets) ==
  /\ ~aligned.done
  /\ notes' = AlignUpTo(notes, Len(notes), alignAllNotes, alignTuplets)
  /\ aligned' = [done |-> TRUE, alignAllNotes |-> alignAllNotes,
                 alignTuplets |-> alignTuplets, before |-> notes]
  /\ UNCHANGED <<formatter, last, computed, voicesIn>>

NoteInputs == SeqsUpTo(NoteKinds, MaxNotes)

InitAlign ==
  /\ Constructed
  /\ voicesIn = <<>>
  /\ notes \in NoteInputs
  /\ aligned = NotAligned(notes)

NextAlign ==
  \E alignAllNotes \in BOOLEAN, alignTuplets \in BOOLEAN :
    AlignRestsToNotes(alignAllNotes, alignTuplets)

SpecAlign == InitAlign /\ [][NextAlign]_vars

WasEligible(k) ==
  Eligible(aligned.before[k], aligned.alignAllNotes, aligned.alignTuplets)

====
